---- MODULE Spec2Model ----
(***************************************************************************)
(* A model of the aeriesjs client (src/aeriesjs/aeriesjs.js, the revision  *)
(* that starts at line 607): the endpoint URL builder makeApiUrl and the   *)
(* request executor makeApiCall.                                           *)
(*                                                                         *)
(* Strings that the builder takes apart are sequences of one-character     *)
(* strings.  A base URL is such a sequence whose first element is the      *)
(* scheme and authority ("https://demo.aeries.net") and whose other        *)
(* elements are the characters of its path.  The characters of the model   *)
(* are letters, digits, "/" and ".": "?", "#", "\", "%", white space and   *)
(* the characters the URL parser percent-encodes are outside it.           *)
(***************************************************************************)
EXTENDS Integers, Sequences, FiniteSets

VARIABLES options, tlsEnv, build, calls, caller

vars == <<options, tlsEnv, build, calls, caller>>

(***************************************************************************)
(* Bounds of the model.                                                    *)
(***************************************************************************)
MaxArgs == 3

MaxCalls == 2

(***************************************************************************)
(* JavaScript values handed to makeApiUrl: null, undefined, a string (s)   *)
(* or a number (n).                                                        *)
(***************************************************************************)
Null == [t |-> "null", s |-> <<>>, n |-> 0]

Undefined == [t |-> "undefined", s |-> <<>>, n |-> 0]

Str(chars) == [t |-> "string", s |-> chars, n |-> 0]

Num(k) == [t |-> "number", s |-> <<>>, n |-> k]

\* A function value, named by its source text (what its toString() gives).
Function(text) == [t |-> "function", s |-> <<text>>, n |-> 0]

\* JavaScript's ToBoolean on these values: !v
Falsy(v) ==
    \/ v.t \in {"null", "undefined"}
    \/ v.t = "string" /\ v.s = <<>>
    \/ v.t = "number" /\ v.n = 0

Digits == <<"0", "1", "2", "3", "4", "5", "6", "7", "8", "9">>

\* Number.prototype.toString of a natural number: its decimal digits.
RECURSIVE NatToString(_)
NatToString(k) ==
    IF k < 10 THEN <<Digits[k + 1]>>
    ELSE NatToString(k \div 10) \o <<Digits[(k % 10) + 1]>>

\* v.toString() of a string or a number (null and undefined have no methods).
toString(v) == IF v.t = "number" THEN NatToString(v.n) ELSE v.s

\* s.replace(/(^\/|\/$)/g, ''): the global match removes one "/" at the start
\* and, of what follows it, one "/" at the end.
StripSlash(s) ==
    LET a == IF s # <<>> /\ Head(s) = "/" THEN Tail(s) ELSE s
    IN  IF a # <<>> /\ a[Len(a)] = "/" THEN SubSeq(a, 1, Len(a) - 1) ELSE a

(***************************************************************************)
(* new URL(input, base) for a path-relative input and an https base: the   *)
(* WHATWG path state.  A path is a sequence of segments.                   *)
(***************************************************************************)
HasSlash(s) == \E i \in 1..Len(s) : s[i] = "/"

FirstSlash(s) == CHOOSE i \in 1..Len(s) : s[i] = "/" /\ \A j \in 1..(i - 1) : s[j] # "/"

\* The pieces of s between its "/" characters.
RECURSIVE SplitSlash(_)
SplitSlash(s) ==
    IF ~HasSlash(s) THEN <<s>>
    ELSE LET i == FirstSlash(s)
         IN  <<SubSeq(s, 1, i - 1)>> \o SplitSlash(SubSeq(s, i + 1, Len(s)))

\* "shorten a URL's path": remove the last segment, if any.
Shorten(path) == IF path = <<>> THEN path ELSE SubSeq(path, 1, Len(path) - 1)

\* The path state run over the pieces of the input: ".." shortens the path, "."
\* is skipped, both leave an empty segment when they end the input.
RECURSIVE PathState(_, _)
PathState(path, pieces) ==
    IF pieces = <<>> THEN path
    ELSE LET p == Head(pieces)
             last == Len(pieces) = 1
             next == IF p = <<".", ".">>
                        THEN IF last THEN Append(Shorten(path), <<>>) ELSE Shorten(path)
                     ELSE IF p = <<".">>
                        THEN IF last THEN Append(path, <<>>) ELSE path
                     ELSE Append(path, p)
         IN  PathState(next, Tail(pieces))

\* The URL serializer: "/" before every segment.
RECURSIVE SerializePath(_)
SerializePath(path) ==
    IF path = <<>> THEN <<>>
    ELSE <<"/">> \o Head(path) \o SerializePath(Tail(path))

\* The path of an absolute https URL given as <<scheme and authority, path characters>>.
BasePath(base) ==
    IF Len(base) = 1 THEN <<<<>>>>
    ELSE PathState(<<>>, SplitSlash(SubSeq(base, 3, Len(base))))

TypeError == [ok |-> FALSE, origin |-> "", pathname |-> <<>>, search |-> <<>>]

\* new URL(input, base): a base of null is not a URL (TypeError: Invalid URL); the
\* input resolves against the base's path without its last segment.
NewURL(input, base) ==
    IF base.t # "string" \/ base.s = <<>> THEN TypeError
    ELSE [ok |-> TRUE,
          origin |-> base.s[1],
          pathname |-> SerializePath(PathState(Shorten(BasePath(base.s)), SplitSlash(input))),
          search |-> <<>>]

\* url.search = query: the query string of the URL, with its "?".
setSearch(u, query) == [u EXCEPT !.search = query]

\* URL.prototype.toString: the href.
UrlToString(u) == <<u.origin>> \o u.pathname \o u.search

(***************************************************************************)
(* makeApiUrl(apiVersion, ...args)                                         *)
(***************************************************************************)
v3 == <<"v", "3">>

\* if (!apiVersion) apiVersion = 'v3';
DefaultVersionUndefinedOnly(apiVersion) ==
    IF apiVersion = Undefined THEN Str(v3) ELSE apiVersion

DefaultVersion(apiVersion) == IF Falsy(apiVersion) THEN Str(v3) ELSE apiVersion

\* if (arguments[i] !== null) e += arguments[i].toString().replace(...) + '/'
SegmentNullAsEmpty(arg) ==
    IF arg = Null THEN [ok |-> TRUE, e |-> <<"/">>]
    ELSE IF arg = Undefined THEN [ok |-> FALSE, e |-> <<>>]
    ELSE [ok |-> TRUE, e |-> StripSlash(toString(arg)) \o <<"/">>]

SegmentUndefinedAsNull(arg) ==
    IF arg = Null \/ arg = Undefined THEN [ok |-> TRUE, e |-> <<>>]
    ELSE [ok |-> TRUE, e |-> StripSlash(toString(arg)) \o <<"/">>]

Segment(arg) ==
    IF arg = Null THEN [ok |-> TRUE, e |-> <<>>]
    ELSE IF arg = Undefined THEN [ok |-> FALSE, e |-> <<>>]
    ELSE [ok |-> TRUE, e |-> StripSlash(toString(arg)) \o <<"/">>]

\* The loop over arguments[1..n-1]: the endpoint e, or the TypeError of undefined.toString().
RECURSIVE Endpoint(_)
Endpoint(args) ==
    IF args = <<>> THEN [ok |-> TRUE, e |-> <<>>]
    ELSE LET h == Segment(Head(args))
             r == Endpoint(Tail(args))
         IN  [ok |-> h.ok /\ r.ok, e |-> h.e \o r.e]

\* 'api/' + apiVersion.replace(/(^\/|\/$)/g, '') + '/' + e: a number has no replace method.
ApiPath(apiVersion, e) ==
    IF apiVersion.t # "string" THEN [ok |-> FALSE, p |-> <<>>]
    ELSE [ok |-> TRUE, p |-> <<"a", "p", "i", "/">> \o StripSlash(apiVersion.s) \o <<"/">> \o e]

makeApiUrl(url, apiVersion, args) ==
    LET version == DefaultVersion(apiVersion)
        ep == Endpoint(args)
        path == ApiPath(version, ep.e)
    IN  IF ~ep.ok \/ ~path.ok THEN TypeError
        ELSE NewURL(path.p, url)

(***************************************************************************)
(* The client: new aeriesjs(options).  options is the configuration after  *)
(* Object.assign over the defaults; tlsEnv is                              *)
(* process.env.NODE_TLS_REJECT_UNAUTHORIZED.                               *)
(***************************************************************************)
DemoCertificate == Str(<<"477abe9e7d27439681d62f4e0de1f5e1">>)

DemoUrl == Str(<<"https://demo.aeries.net", "/", "a", "e", "r", "i", "e", "s", "/">>)

\* The same address without the trailing slash the convention asks for.
DemoUrlNoSlash == Str(<<"https://demo.aeries.net", "/", "a", "e", "r", "i", "e", "s">>)

DefaultOptions == [certificate |-> Null, verifyCerts |-> TRUE, url |-> Null]

\* if (!this.options.verifyCerts) process.env.NODE_TLS_REJECT_UNAUTHORIZED = "0";
constructorPerClient(opts, env) == IF ~opts.verifyCerts THEN "0" ELSE "unset"

constructor(opts, env) == IF ~opts.verifyCerts THEN "0" ELSE env

(***************************************************************************)
(* The builder on its own: the inputs of one makeApiUrl call are drawn in  *)
(* the initial state, and the call stores the URL it returns (or the       *)
(* TypeError it raises).                                                   *)
(***************************************************************************)
schools == <<"s", "c", "h", "o", "o", "l", "s">>

SegStrings ==
    { <<>>,
      schools,
      <<"/">> \o schools \o <<"/">>,
      <<"/", "/">> \o schools,
      <<".", ".">>,
      <<"a", "/", "b">> }

SegValues == {Null, Undefined, Num(0), Num(990)} \cup {Str(s) : s \in SegStrings}

Versions ==
    { Undefined, Null, Str(<<>>), Num(0), Num(2),
      Str(<<"v", "2">>), Str(<<"/", "v", "2", "/">>) }

BaseUrls == {Null, DemoUrl, DemoUrlNoSlash}

ArgLists == UNION { [1..k -> SegValues] : k \in 0..MaxArgs }

NoBuild == [pc |-> "idle", apiVersion |-> Undefined, args |-> <<>>, result |-> TypeError]

\* What the calling program has done so far: the clients it has constructed and the
\* values it last passed to setCertificate and setUrl (undefined: never called).
FirstClient == [constructions |-> 1, setCertificate |-> Undefined, setUrl |-> Undefined]

InitUrl ==
    /\ options \in { [DefaultOptions EXCEPT !.certificate = DemoCertificate, !.url = u] :
                         u \in BaseUrls }
    /\ tlsEnv = constructor(options, "unset")
    /\ build \in [pc : {"ready"}, apiVersion : Versions, args : ArgLists, result : {TypeError}]
    /\ calls = <<>>
    /\ caller = FirstClient

\* makeApiUrl that keeps the URL it built as the base of the client.
MakeApiUrlStoresUrl ==
    /\ build.pc = "ready"
    /\ LET u == makeApiUrl(options.url, build.apiVersion, build.args)
       IN  /\ build' = [build EXCEPT !.pc = "done", !.result = u]
           /\ options' = [options EXCEPT !.url = IF u.ok THEN Str(UrlToString(u)) ELSE @]
    /\ UNCHANGED <<tlsEnv, calls, caller>>

MakeApiUrl ==
    /\ build.pc = "ready"
    /\ build' = [build EXCEPT !.pc = "done",
                              !.result = makeApiUrl(options.url, build.apiVersion, build.args)]
    /\ UNCHANGED <<options, tlsEnv, calls, caller>>

NextUrl == MakeApiUrl

SpecUrl == InitUrl /\ [][NextUrl]_vars

(***************************************************************************)
(* makeApiCall(url, callback): the values the transport hands to the       *)
(* response handler and the handler itself.                                *)
(***************************************************************************)
Error(name) == [t |-> "error", s |-> <<name>>, n |-> 0]

\* A parsed JSON object or array, named by its canonical text.
Object(canonical) == [t |-> "object", s |-> <<canonical>>, n |-> 0]

\* The response object of the transport: response.statusCode.
Response(statusCode) == [t |-> "response", s |-> <<>>, n |-> statusCode]

TransportError == Error("ETIMEDOUT")

SyntaxError == Error("SyntaxError")

\* What the callback raises when it raises.
CallbackError == Error("CallbackError")

\* JSON.parse(text): the value, or the SyntaxError it throws.
JSONparse(text) ==
    CASE text = <<"{\"a\":1}">> -> [ok |-> TRUE, value |-> Object("{a:1}")]
      [] text = <<" { \"a\" : 1 } ">> -> [ok |-> TRUE, value |-> Object("{a:1}")]
      [] text = <<"null">> -> [ok |-> TRUE, value |-> Null]
      [] OTHER -> [ok |-> FALSE, value |-> SyntaxError]

\* response ? response.statusCode : 500
StatusCodeAlways500(response) == 500

StatusCode(response) == IF response # Undefined THEN response.n ELSE 500

\* callback(err, jBody, response ? response.statusCode : 500)
OnParsedDropsError(err, jBody, response) ==
    [error |-> Null, body |-> jBody, statusCode |-> StatusCode(response)]

OnParsed(err, jBody, response) ==
    [error |-> err, body |-> jBody, statusCode |-> StatusCode(response)]

\* catch (e) { callback(e, body, response ? response.statusCode : 500) }
OnCatchDropsBody(e, body, response) ==
    [error |-> e, body |-> Null, statusCode |-> StatusCode(response)]

OnCatchDropsError(e, body, response) ==
    [error |-> Null, body |-> body, statusCode |-> StatusCode(response)]

OnCatch(e, body, response) ==
    [error |-> e, body |-> body, statusCode |-> StatusCode(response)]

\* else { callback(null, null, response ? response.statusCode : 500) }
OnEmptyBody(response) ==
    [error |-> Null, body |-> Null, statusCode |-> StatusCode(response)]

(***************************************************************************)
(* function (err, response, body) { ... }: the callback invocations of one *)
(* run of the response handler, in order, and whether an exception leaves  *)
(* the handler.  throws is the set of invocations (1, 2) in which the      *)
(* callback raises.  The first callback call stands inside the try block,  *)
(* so an exception it raises is caught like a parse error.                 *)
(***************************************************************************)
requestCallback(err, response, body, throws) ==
    IF ~Falsy(body)
    THEN LET parsed == JSONparse(body.s)
         IN  IF parsed.ok
             THEN IF 1 \in throws
                  THEN [invoked |-> <<OnParsed(err, parsed.value, response),
                                      OnCatch(CallbackError, body, response)>>,
                        uncaught |-> 2 \in throws]
                  ELSE [invoked |-> <<OnParsed(err, parsed.value, response)>>,
                        uncaught |-> FALSE]
             ELSE [invoked |-> <<OnCatch(parsed.value, body, response)>>,
                   uncaught |-> 1 \in throws]
    ELSE [invoked |-> <<OnEmptyBody(response)>>, uncaught |-> 1 \in throws]

(***************************************************************************)
(* The calls of one client.  A call is Idle until makeApiCall issues its   *)
(* request, InFlight until the transport runs the response handler, and    *)
(* Done after it.  verifyCerts is the setting of the client that issued    *)
(* the request and tlsFlag the value of NODE_TLS_REJECT_UNAUTHORIZED the   *)
(* TLS layer of the process finds when the request connects.               *)
(***************************************************************************)
NoRequest == [url |-> <<>>, method |-> "", accept |-> "", cert |-> <<>>]

IdleCall ==
    [pc |-> "Idle", request |-> NoRequest, requests |-> 0,
     err |-> Null, response |-> Undefined, body |-> Undefined,
     invoked |-> <<>>, uncaught |-> FALSE,
     op |-> "", args |-> <<>>, thrown |-> FALSE, callback |-> Undefined,
     verifyCerts |-> TRUE, tlsFlag |-> ""]

\* rOptions: url.toString(), GET, Accept and AERIES-CERT: this.certificate || ''
RequestOptionsCertAsIs(url, certificate) ==
    [url |-> UrlToString(url),
     method |-> "GET",
     accept |-> "application/json",
     cert |-> IF certificate.t = "string" THEN certificate.s ELSE <<certificate.t>>]

RequestOptions(url, certificate) ==
    [url |-> UrlToString(url),
     method |-> "GET",
     accept |-> "application/json",
     cert |-> IF Falsy(certificate) THEN <<>> ELSE certificate.s]

Errors == {Null, TransportError}

Responses == {Undefined, Response(200), Response(404)}

Bodies ==
    { Undefined, Str(<<>>), Str(<<"{\"a\":1}">>), Str(<<"null">>), Str(<<"not json">>) }

Init ==
    /\ options = [DefaultOptions EXCEPT !.certificate = DemoCertificate, !.url = DemoUrl]
    /\ tlsEnv = constructor(options, "unset")
    /\ build = NoBuild
    /\ calls = [c \in 1..MaxCalls |-> IdleCall]
    /\ caller = FirstClient

\* makeApiCall(url, callback) with the URL of an endpoint: one request is issued.
makeApiCall(c, url) ==
    /\ calls[c].pc = "Idle"
    /\ url.ok
    /\ calls' = [calls EXCEPT ![c] =
                   [@ EXCEPT !.pc = "InFlight",
                             !.op = "makeApiCall",
                             !.args = <<Str(<<url.origin>>), Str(url.pathname), Str(url.search)>>,
                             !.request = RequestOptions(url, options.certificate),
                             !.requests = @ + 1,
                             !.verifyCerts = options.verifyCerts,
                             !.tlsFlag = tlsEnv]]
    /\ UNCHANGED <<options, tlsEnv, build, caller>>

\* A handler that issues the request once more after a transport failure.
RequestCompletesRetrying(c, err, response, body, throws) ==
    /\ calls[c].pc = "InFlight"
    /\ LET run == requestCallback(err, response, body, throws)
       IN  calls' = [calls EXCEPT ![c] =
                       IF err # Null /\ calls[c].requests < 2
                       THEN [@ EXCEPT !.requests = @ + 1]
                       ELSE [@ EXCEPT !.pc = "Done",
                                      !.err = err,
                                      !.response = response,
                                      !.body = body,
                                      !.invoked = @ \o run.invoked,
                                      !.uncaught = run.uncaught]]
    /\ UNCHANGED <<options, tlsEnv, build, caller>>

\* A handler whose callback is kept on the client: the response of one request
\* is delivered to the callbacks of all requests in flight.
RequestCompletesShared(c, err, response, body, throws) ==
    /\ calls[c].pc = "InFlight"
    /\ LET run == requestCallback(err, response, body, throws)
       IN  calls' = [d \in DOMAIN calls |->
                       IF d = c
                       THEN [calls[d] EXCEPT !.pc = "Done",
                                             !.err = err,
                                             !.response = response,
                                             !.body = body,
                                             !.invoked = @ \o run.invoked,
                                             !.uncaught = run.uncaught]
                       ELSE IF calls[d].pc = "InFlight"
                            THEN [calls[d] EXCEPT !.invoked = @ \o run.invoked]
                            ELSE calls[d]]
    /\ UNCHANGED <<options, tlsEnv, build, caller>>

\* The transport completes request c and runs the response handler to its end.
RequestCompletes(c, err, response, body, throws) ==
    /\ calls[c].pc = "InFlight"
    /\ LET run == requestCallback(err, response, body, throws)
       IN  calls' = [calls EXCEPT ![c] =
                       [@ EXCEPT !.pc = "Done",
                                 !.err = err,
                                 !.response = response,
                                 !.body = body,
                                 !.invoked = @ \o run.invoked,
                                 !.uncaught = run.uncaught]]
    /\ UNCHANGED <<options, tlsEnv, build, caller>>

Next ==
    \E c \in 1..MaxCalls :
        \/ makeApiCall(c, makeApiUrl(options.url, Str(v3), <<Str(schools)>>))
        \/ \E err \in Errors, response \in Responses, body \in Bodies, throws \in SUBSET {1, 2} :
              RequestCompletes(c, err, response, body, throws)

Spec == Init /\ [][Next]_vars

(***************************************************************************)
(* Properties of the request executor (checked under Spec).                *)
(***************************************************************************)
Done(c) == calls[c].pc = "Done"

Delivery(error, body, statusCode) ==
    [error |-> error, body |-> body, statusCode |-> statusCode]

JsonText == Str(<<"{\"a\":1}">>)

\* C1: the callback of a call is invoked exactly once: not before the response
\* handler runs, and once, never twice, when it has run, whatever the callback does.
C1_InvokedExactlyOnce ==
    \A c \in 1..MaxCalls :
        /\ Done(c) => Len(calls[c].invoked) = 1
        /\ ~Done(c) => Len(calls[c].invoked) = 0

\* C2: when the transport reports an error, the callback receives that error, a
\* null body and the status of the response, or 500 when there is no response.
C2_TransportFailureDelivered ==
    \A c \in 1..MaxCalls :
        Done(c) /\ calls[c].err # Null =>
            calls[c].invoked[1] =
                Delivery(calls[c].err, Null,
                         IF calls[c].response = Undefined THEN 500 ELSE calls[c].response.n)

\* C3: a response whose non-empty body is not valid JSON is delivered once, as
\* (the parse error, the raw body text, the status of the response).
C3_ParseFailureDelivered ==
    \A c \in 1..MaxCalls :
        (/\ Done(c)
         /\ calls[c].response # Undefined
         /\ calls[c].body = Str(<<"not json">>))
        => calls[c].invoked = <<Delivery(SyntaxError, Str(<<"not json">>), calls[c].response.n)>>

C3_Witness ==
    \E c \in 1..MaxCalls :
        /\ Done(c)
        /\ calls[c].err = Null
        /\ calls[c].response = Response(200)
        /\ calls[c].invoked = <<Delivery(SyntaxError, Str(<<"not json">>), 200)>>

\* C4: a response whose non-empty body parses as JSON is delivered first as (the
\* error the transport reported or null, the parsed value, the status of the response).
C4_ParsedBodyDelivered ==
    \A c \in 1..MaxCalls :
        (/\ Done(c)
         /\ calls[c].response # Undefined
         /\ calls[c].body \in {JsonText, Str(<<"null">>)})
        => calls[c].invoked[1] =
              Delivery(calls[c].err,
                       IF calls[c].body = JsonText THEN Object("{a:1}") ELSE Null,
                       calls[c].response.n)

C4_Witness ==
    \E c \in 1..MaxCalls :
        /\ Done(c)
        /\ calls[c].err = Null
        /\ calls[c].body = JsonText
        /\ calls[c].invoked = <<Delivery(Null, Object("{a:1}"), 200)>>

\* C5: a response with an empty body (no transport error reported) is delivered
\* once, as (null, null, the status of the response, or 500 without a response).
C5_EmptyBodyDelivered ==
    \A c \in 1..MaxCalls :
        (/\ Done(c)
         /\ calls[c].err = Null
         /\ calls[c].body \in {Undefined, Str(<<>>)})
        => calls[c].invoked =
              <<Delivery(Null, Null,
                         IF calls[c].response = Undefined THEN 500 ELSE calls[c].response.n)>>

C5_Witness ==
    \E c \in 1..MaxCalls :
        /\ Done(c)
        /\ calls[c].response = Response(404)
        /\ calls[c].body = Str(<<>>)
        /\ calls[c].invoked = <<Delivery(Null, Null, 404)>>

\* The three states of a delivered result: an error detail, a parsed body, neither.
Failure(d) == d.error # Null

Success(d) == d.body.t = "object"

EmptySuccess(d) == d.error = Null /\ d.body = Null

StatesOf(d) ==
    (IF Failure(d) THEN 1 ELSE 0) + (IF Success(d) THEN 1 ELSE 0)
        + (IF EmptySuccess(d) THEN 1 ELSE 0)

IsPrefix(p, s) == Len(p) <= Len(s) /\ SubSeq(s, 1, Len(p)) = p

NoDoubleSlash(s) == \A i \in 1..(Len(s) - 1) : ~(s[i] = "/" /\ s[i + 1] = "/")

WithoutNulls(args) == SelectSeq(args, LAMBDA a : a # Null)

Built == build.pc = "done"

\* C7: null segments are skipped: the URL (or the TypeError) of a call equals that
\* of the call without its null segments, while the number 0 adds the segment "0/".
C7_NullSegmentsSkipped ==
    Built =>
        /\ build.result = makeApiUrl(options.url, build.apiVersion, WithoutNulls(build.args))
        /\ \A i \in 1..Len(build.args) :
              build.args[i] = Num(0) =>
                  Endpoint(SubSeq(build.args, i, i)) = [ok |-> TRUE, e |-> <<"0", "/">>]
        /\ (/\ build.result.ok
            /\ build.args # <<>>
            /\ build.args[Len(build.args)] = Num(0))
           => LET p == build.result.pathname
              IN  SubSeq(p, Len(p) - 2, Len(p)) = <<"/", "0", "/">>

C7_Witness ==
    /\ Built
    /\ build.args = <<Str(schools), Null, Num(990)>>
    /\ build.apiVersion = Undefined
    /\ build.result.ok
    /\ build.result.pathname =
          <<"/", "a", "e", "r", "i", "e", "s", "/", "a", "p", "i", "/", "v", "3", "/">>
              \o schools \o <<"/", "9", "9", "0", "/">>

\* C8: with no null segment, the built path never has two adjacent "/" characters.
C8_NoDoubleSeparator ==
    (/\ Built
     /\ build.result.ok
     /\ \A i \in 1..Len(build.args) : build.args[i] # Null)
    => NoDoubleSlash(build.result.pathname)

\* C9: for a base URL ending in "/", every URL built begins with
\* <baseUrl>api/<version>/.
C9_StaysUnderApiPrefix ==
    (/\ Built
     /\ build.result.ok
     /\ options.url = DemoUrl)
    => /\ build.result.origin = DemoUrl.s[1]
       /\ IsPrefix(Tail(DemoUrl.s) \o <<"a", "p", "i", "/">>
                       \o StripSlash((IF Falsy(build.apiVersion) THEN Str(v3)
                                      ELSE build.apiVersion).s) \o <<"/">>,
                   build.result.pathname)

BaseDirectory ==
    IF options.url = DemoUrl THEN <<"/", "a", "e", "r", "i", "e", "s", "/">> ELSE <<"/">>

DotFree(args) ==
    \A i \in 1..Len(args) : \A j \in 1..Len(args[i].s) : args[i].s[j] # "."

\* C10: a version that is omitted or falsy gives the version segment v3, and a
\* version string that is given is the version segment (for a configured base URL
\* and segments that are strings without "." characters, numbers or null).
C10_VersionDefaultsToV3 ==
    (/\ Built
     /\ options.url # Null
     /\ \A i \in 1..Len(build.args) : build.args[i] # Undefined
     /\ DotFree(build.args))
    => /\ build.apiVersion \in {Undefined, Null, Str(<<>>), Num(0)} =>
              /\ build.result.ok
              /\ IsPrefix(BaseDirectory \o <<"a", "p", "i", "/", "v", "3", "/">>,
                          build.result.pathname)
       /\ build.apiVersion = Str(<<"v", "2">>) =>
              /\ build.result.ok
              /\ IsPrefix(BaseDirectory \o <<"a", "p", "i", "/", "v", "2", "/">>,
                          build.result.pathname)

C10_Witness ==
    /\ Built
    /\ build.apiVersion = Undefined
    /\ build.args = <<Str(schools)>>
    /\ build.result.ok
    /\ build.result.pathname =
          <<"/", "a", "e", "r", "i", "e", "s", "/", "a", "p", "i", "/", "v", "3", "/">>
              \o schools \o <<"/">>

\* C11: the version is normalized like a segment: a version that is given, string
\* or number, is coerced to its string form, stripped of a leading and a trailing
\* "/" and placed after api/ (for a configured base URL and segments without ".").
C11_VersionNormalizedLikeSegment ==
    (/\ Built
     /\ options.url # Null
     /\ build.apiVersion.t \in {"string", "number"}
     /\ ~Falsy(build.apiVersion)
     /\ \A i \in 1..Len(build.args) : build.args[i] # Undefined
     /\ DotFree(build.args))
    => /\ build.result.ok
       /\ IsPrefix(BaseDirectory \o <<"a", "p", "i", "/">>
                       \o StripSlash(toString(build.apiVersion)) \o <<"/">>,
                   build.result.pathname)

(***************************************************************************)
(* One client under the operations of a calling program: makeApiUrl called *)
(* and called again with the same arguments, getSchools, the responses,    *)
(* and the setCertificate and setUrl calls of the README.  The class       *)
(* defines getters for certificate and url and no method of these two      *)
(* names, so each such call raises a TypeError (not a function) and the    *)
(* configuration stays as it was.                                          *)
(***************************************************************************)
ConfiguredOptions ==
    { [DefaultOptions EXCEPT !.certificate = c, !.url = u] :
          c \in {Null, DemoCertificate}, u \in {Null, DemoUrl} }

setCertificate(certificate) ==
    /\ caller' = [caller EXCEPT !.setCertificate = certificate]
    /\ UNCHANGED <<options, tlsEnv, build, calls>>

setUrl(url) ==
    /\ caller' = [caller EXCEPT !.setUrl = url]
    /\ UNCHANGED <<options, tlsEnv, build, calls>>

\* The calling program picks the arguments of its makeApiUrl calls.
ChooseArguments(apiVersion, args) ==
    /\ build.pc = "idle"
    /\ build' = [build EXCEPT !.pc = "ready", !.apiVersion = apiVersion, !.args = args]
    /\ UNCHANGED <<options, tlsEnv, calls, caller>>

\* A later makeApiUrl call with the arguments of the first.
MakeApiUrlAgainAccumulating ==
    /\ build.pc \in {"done", "again"}
    /\ build' = [build EXCEPT !.pc = "again",
                              !.result = makeApiUrl(options.url, build.apiVersion,
                                                    build.args \o build.args)]
    /\ UNCHANGED <<options, tlsEnv, calls, caller>>

MakeApiUrlAgain ==
    /\ build.pc \in {"done", "again"}
    /\ build' = [build EXCEPT !.pc = "again",
                              !.result = makeApiUrl(options.url, build.apiVersion, build.args)]
    /\ UNCHANGED <<options, tlsEnv, calls, caller>>

\* An accessor's this.makeApiCall(this.makeApiUrl(...), ...): the TypeError of
\* makeApiUrl leaves the accessor before any request is made.
CallThrough(call, op, args, url) ==
    IF url.ok
    THEN [call EXCEPT !.pc = "InFlight", !.op = op, !.args = args,
                      !.request = RequestOptions(url, options.certificate),
                      !.requests = @ + 1,
                      !.verifyCerts = options.verifyCerts,
                      !.tlsFlag = tlsEnv]
    ELSE [call EXCEPT !.pc = "Thrown", !.op = op, !.args = args, !.thrown = TRUE]

\* An accessor called with a callback: the call made through makeApiUrl and
\* makeApiCall, and the callback its wrapper function (err, body, code) hands
\* the result to.
Accessor(call, op, args, callback, url) ==
    [CallThrough(call, op, args, url) EXCEPT !.callback = callback]

\* The abstract relational comparison value < bound of a value and a number:
\* null converts to 0, undefined and a function to NaN, and NaN is below nothing.
LessThan(value, bound) ==
    \/ value.t = "number" /\ value.n < bound
    \/ value.t = "null" /\ 0 < bound

getSchools(c) ==
    /\ calls[c].pc = "Idle"
    /\ calls' = [calls EXCEPT ![c] =
                   CallThrough(@, "getSchools", <<>>,
                               makeApiUrl(options.url, Str(v3), <<Str(schools)>>))]
    /\ UNCHANGED <<options, tlsEnv, build, caller>>

ChosenVersions == {Undefined, Str(<<"v", "2">>)}

ChosenArgLists == { <<Str(schools)>>, <<Str(schools), Null, Num(990)>>, <<Undefined>> }

InitConfig ==
    /\ options \in ConfiguredOptions
    /\ tlsEnv = constructor(options, "unset")
    /\ build = NoBuild
    /\ calls = [c \in 1..MaxCalls |-> IdleCall]
    /\ caller = FirstClient

NextConfig ==
    \/ setCertificate(DemoCertificate)
    \/ setUrl(DemoUrl)
    \/ \E apiVersion \in ChosenVersions, args \in ChosenArgLists :
          ChooseArguments(apiVersion, args)
    \/ MakeApiUrl
    \/ MakeApiUrlAgain
    \/ \E c \in 1..MaxCalls :
          \/ getSchools(c)
          \/ RequestCompletes(c, Null, Response(200), Str(<<"{\"a\":1}">>), {})

SpecConfig == InitConfig /\ [][NextConfig]_vars

C13_MakeApiUrlNoSideEffect ==
    [][build' # build =>
          /\ options' = options
          /\ tlsEnv' = tlsEnv
          /\ calls' = calls]_vars

C13_Witness ==
    /\ build.pc = "done"
    /\ build.result.ok
    /\ \E c \in 1..MaxCalls : calls[c].pc = "InFlight" /\ calls[c].requests = 1
    /\ \E c \in 1..MaxCalls : calls[c].pc = "Idle" /\ calls[c].requests = 0

\* C19: after setCertificate(c) the configured certificate is c, and after
\* setUrl(u) the configured url is u, so later requests carry c and later URLs
\* are resolved against u.
C19_SettersTakeEffect ==
    /\ caller.setCertificate # Undefined => options.certificate = caller.setCertificate
    /\ caller.setUrl # Undefined => options.url = caller.setUrl

(***************************************************************************)
(* A program that constructs clients one after the other, new api(given),  *)
(* and uses the one it constructed last.  given holds the keys the program *)
(* passes; Object.assign lays them over the defaults.                      *)
(***************************************************************************)
MaxClients == 3

\* Object.assign(defaults, given)
assign(defaults, given) ==
    [k \in DOMAIN defaults |-> IF k \in DOMAIN given THEN given[k] ELSE defaults[k]]

GivenOptions ==
    { [certificate |-> DemoCertificate, url |-> DemoUrl],
      [certificate |-> DemoCertificate, url |-> DemoUrl, verifyCerts |-> TRUE],
      [certificate |-> DemoCertificate, url |-> DemoUrl, verifyCerts |-> FALSE],
      [verifyCerts |-> FALSE] }

\* A constructor that sets the flag for its own client: "0" or back to unset.
ConstructScoped(given) ==
    /\ caller.constructions < MaxClients
    /\ options' = assign(DefaultOptions, given)
    /\ tlsEnv' = IF options'.verifyCerts THEN "unset" ELSE "0"
    /\ caller' = [caller EXCEPT !.constructions = @ + 1]
    /\ UNCHANGED <<build, calls>>

\* new aeriesjs(given)
Construct(given) ==
    /\ caller.constructions < MaxClients
    /\ options' = assign(DefaultOptions, given)
    /\ tlsEnv' = constructor(options', tlsEnv)
    /\ caller' = [caller EXCEPT !.constructions = @ + 1]
    /\ UNCHANGED <<build, calls>>

InitTls ==
    /\ options \in { assign(DefaultOptions, given) : given \in GivenOptions }
    /\ tlsEnv = constructor(options, "unset")
    /\ build = [NoBuild EXCEPT !.pc = "ready", !.args = <<Str(schools)>>]
    /\ calls = [c \in 1..MaxCalls |-> IdleCall]
    /\ caller = FirstClient

NextTls ==
    \/ \E given \in GivenOptions : Construct(given)
    \/ MakeApiUrl
    \/ MakeApiUrlAgain
    \/ \E c \in 1..MaxCalls :
          \/ getSchools(c)
          \/ RequestCompletes(c, Null, Response(200), Str(<<"{\"a\":1}">>), {})

SpecTls == InitTls /\ [][NextTls]_vars

\* C18: the TLS flag is decided at construction only: a construction with
\* verifyCerts false sets it to "0", one with verifyCerts true or unset leaves it
\* as it was, and no other operation changes it.
C18_TlsDecidedAtConstruction ==
    /\ [](caller.constructions = 1 => (tlsEnv = "0" <=> ~options.verifyCerts))
    /\ [][/\ caller'.constructions = caller.constructions + 1 =>
                tlsEnv' = (IF options'.verifyCerts THEN tlsEnv ELSE "0")
          /\ caller'.constructions = caller.constructions => tlsEnv' = tlsEnv]_vars

C18_Witness ==
    /\ caller.constructions = 2
    /\ ~options.verifyCerts
    /\ tlsEnv = "0"
    /\ build.pc = "again"
    /\ \E c \in 1..MaxCalls : calls[c].pc = "Done"

(***************************************************************************)
(* The accessors of one client: getSchools, which takes no input, and      *)
(* getStudentEnrollmentAtSchool(schoolCode, studentId, year, callback),    *)
(* which checks the year before it makes its call.  The class defines the  *)
(* latter name twice; the later, four-parameter definition is the method.  *)
(***************************************************************************)
enrollment == <<"e", "n", "r", "o", "l", "l", "m", "e", "n", "t">>

yearSegment == <<"y", "e", "a", "r">>

InvalidYear == Error("Please enter a valid School Year.")

\* The accessor with the comparison year <= 1900.
getStudentEnrollmentAtSchoolFrom1901(c, schoolCode, studentId, year, callback, throws) ==
    /\ calls[c].pc = "Idle"
    /\ LET sid == IF studentId = Null THEN Num(0) ELSE studentId
           given == <<schoolCode, studentId, year>>
       IN  calls' = [calls EXCEPT ![c] =
              IF LessThan(year, 1901)
              THEN [@ EXCEPT !.pc = "Returned",
                             !.op = "getStudentEnrollmentAtSchool",
                             !.args = given,
                             !.callback = callback,
                             !.invoked = IF callback.t = "function"
                                         THEN <<OnParsed(InvalidYear, Null, Response(500))>>
                                         ELSE <<>>,
                             !.thrown = throws \/ callback.t # "function"]
              ELSE Accessor(@, "getStudentEnrollmentAtSchool", given, callback,
                            makeApiUrl(options.url, Str(v3),
                                       <<Str(schools), schoolCode, Str(enrollment),
                                         sid, Str(yearSegment), year>>))]
    /\ UNCHANGED <<options, tlsEnv, build, caller>>

\* throws: the callback raises when it is invoked with the year error, and the
\* exception leaves the accessor; so does the TypeError of calling a callback
\* that is not a function.
getStudentEnrollmentAtSchool(c, schoolCode, studentId, year, callback, throws) ==
    /\ calls[c].pc = "Idle"
    /\ LET sid == IF studentId = Null THEN Num(0) ELSE studentId
           given == <<schoolCode, studentId, year>>
       IN  calls' = [calls EXCEPT ![c] =
              IF LessThan(year, 1900)
              THEN [@ EXCEPT !.pc = "Returned",
                             !.op = "getStudentEnrollmentAtSchool",
                             !.args = given,
                             !.callback = callback,
                             !.invoked = IF callback.t = "function"
                                         THEN <<OnParsed(InvalidYear, Null, Response(500))>>
                                         ELSE <<>>,
                             !.thrown = throws \/ callback.t # "function"]
              ELSE Accessor(@, "getStudentEnrollmentAtSchool", given, callback,
                            makeApiUrl(options.url, Str(v3),
                                       <<Str(schools), schoolCode, Str(enrollment),
                                         sid, Str(yearSegment), year>>))]
    /\ UNCHANGED <<options, tlsEnv, build, caller>>

TheCallback == Function("function (error, body, code) { ... }")

SchoolCodes == {Num(990)}

StudentIds == {Null, Num(12)}

Years == {Num(1899), Num(1900), Num(2017)}

AccessorBodies == {Undefined, JsonText, Str(<<"not json">>)}

InitAccessor ==
    /\ options \in { [DefaultOptions EXCEPT !.url = DemoUrl],
                     [DefaultOptions EXCEPT !.certificate = DemoCertificate, !.url = DemoUrl],
                     [DefaultOptions EXCEPT !.certificate = DemoCertificate] }
    /\ tlsEnv = constructor(options, "unset")
    /\ build = NoBuild
    /\ calls = [c \in 1..MaxCalls |-> IdleCall]
    /\ caller = FirstClient

NextAccessor ==
    \E c \in 1..MaxCalls :
        \/ getSchools(c)
        \/ \E schoolCode \in SchoolCodes, studentId \in StudentIds, year \in Years,
              throws \in BOOLEAN :
              getStudentEnrollmentAtSchool(c, schoolCode, studentId, year, TheCallback, throws)
        \/ \E err \in Errors, body \in AccessorBodies :
              RequestCompletes(c, err, Response(200), body, {})

SpecAccessor == InitAccessor /\ [][NextAccessor]_vars

Requested(c) == calls[c].pc \in {"InFlight", "Done"}

\* C14: every request is a GET with Accept: application/json and an AERIES-CERT
\* header whose value is the configured certificate, or the empty string when
\* none is configured; an unconfigured certificate does not keep the request
\* from being made.
C14_RequestHeaders ==
    \A c \in 1..MaxCalls :
        /\ Requested(c) =>
              /\ calls[c].request.method = "GET"
              /\ calls[c].request.accept = "application/json"
              /\ calls[c].request.cert =
                    (IF options.certificate = Null THEN <<>> ELSE options.certificate.s)
        /\ (calls[c].op # "" /\ options.url # Null /\ options.certificate = Null
            /\ calls[c].pc # "Returned") => Requested(c) /\ calls[c].requests = 1

C14_Witness ==
    /\ options.certificate = Null
    /\ \E c \in 1..MaxCalls :
          /\ calls[c].pc = "Done"
          /\ calls[c].request.cert = <<>>
          /\ calls[c].request.method = "GET"

EnrollmentHref(schoolCode, studentId, year) ==
    <<"https://demo.aeries.net", "/", "a", "e", "r", "i", "e", "s", "/",
      "a", "p", "i", "/", "v", "3", "/">>
        \o schools \o <<"/">> \o NatToString(schoolCode.n) \o <<"/">>
        \o enrollment \o <<"/">>
        \o (IF studentId = Null THEN <<"0">> ELSE NatToString(studentId.n)) \o <<"/">>
        \o yearSegment \o <<"/">> \o NatToString(year.n) \o <<"/">>

\* C15: on a client with a base URL, getStudentEnrollmentAtSchool with a year
\* below 1900 has invoked the callback once with (Error, null, 500) when it
\* returns and has made no request; with a year of 1900 or above it has made one
\* request to schools/<schoolCode>/enrollment/<studentId or 0>/year/<year>/ and
\* the callback is not invoked while the request is in flight.
C15_YearCheckedBeforeRequest ==
    \A c \in 1..MaxCalls :
        (calls[c].op = "getStudentEnrollmentAtSchool" /\ options.url = DemoUrl) =>
            LET schoolCode == calls[c].args[1]
                studentId == calls[c].args[2]
                year == calls[c].args[3]
            IN  IF year.n < 1900
                THEN /\ calls[c].pc = "Returned"
                     /\ Len(calls[c].invoked) = 1
                     /\ calls[c].invoked[1].error.t = "error"
                     /\ calls[c].invoked[1].body = Null
                     /\ calls[c].invoked[1].statusCode = 500
                     /\ calls[c].requests = 0
                     /\ calls[c].request = NoRequest
                ELSE /\ Requested(c)
                     /\ calls[c].requests = 1
                     /\ calls[c].request.url = EnrollmentHref(schoolCode, studentId, year)
                     /\ calls[c].pc = "InFlight" => calls[c].invoked = <<>>

C15_Witness ==
    /\ options.url = DemoUrl
    /\ calls[1].op = "getStudentEnrollmentAtSchool"
    /\ calls[1].args = <<Num(990), Null, Num(1900)>>
    /\ calls[1].pc = "InFlight"
    /\ calls[2].op = "getStudentEnrollmentAtSchool"
    /\ calls[2].args[3] = Num(1899)
    /\ calls[2].pc = "Returned"

\* C16: no accessor raises an exception in place of a callback invocation, and
\* the error of a failed request is the first argument of a callback invocation.
C16_ErrorsReachCallback ==
    \A c \in 1..MaxCalls :
        /\ calls[c].pc # "Thrown"
        /\ (Done(c) /\ calls[c].err # Null) =>
              \E i \in 1..Len(calls[c].invoked) : calls[c].invoked[i].error = calls[c].err

(***************************************************************************)
(* makeApiCall with the URLs accessors hand to it: the URL of an endpoint  *)
(* as makeApiUrl built it, or that URL with a query string set on it.      *)
(***************************************************************************)
CodeQuery == <<"?", "c", "o", "d", "e", "=", "1", "4", "4">>

GivenUrls ==
    LET u == makeApiUrl(options.url, Str(v3), <<Str(schools)>>)
    IN  {u, setSearch(u, CodeQuery)}

NextRequest ==
    \E c \in 1..MaxCalls :
        \/ \E url \in GivenUrls : makeApiCall(c, url)
        \/ \E err \in Errors, response \in Responses, body \in AccessorBodies :
              RequestCompletes(c, err, response, body, {})

SpecRequest == Init /\ [][NextRequest]_vars

\* C17: with several calls in flight and their responses arriving in any order,
\* a step changes one call only, a callback is invoked only by the response of
\* its own request and with the outcome of that response, and the configuration
\* of the client never changes.
C17_CallsIndependent ==
    [][/\ options' = options
       /\ \A c \in 1..MaxCalls :
             calls'[c] # calls[c] =>
                /\ \A d \in 1..MaxCalls : d # c => calls'[d] = calls[d]
                /\ calls'[c].invoked # calls[c].invoked =>
                      /\ calls[c].pc = "InFlight"
                      /\ calls'[c].pc = "Done"
                      /\ \E throws \in SUBSET {1, 2} :
                            calls'[c].invoked =
                               requestCallback(calls'[c].err, calls'[c].response,
                                               calls'[c].body, throws).invoked]_vars

C17_Witness ==
    /\ Done(1)
    /\ Done(2)
    /\ calls[1].response = Response(200)
    /\ calls[2].response = Response(404)
    /\ calls[1].body = JsonText
    /\ calls[2].body = Str(<<"not json">>)
    /\ calls[1].invoked = <<Delivery(Null, Object("{a:1}"), 200)>>
    /\ calls[2].invoked = <<Delivery(SyntaxError, Str(<<"not json">>), 404)>>

\* C20: a call of makeApiCall has issued one GET request to the href of the URL
\* it was given, query string included, and the count stays one after the
\* response, whatever the error, the body or the status code.
C20_OneRequestPerCall ==
    \A c \in 1..MaxCalls :
        /\ calls[c].pc = "Idle" => calls[c].requests = 0
        /\ Requested(c) =>
              /\ calls[c].requests = 1
              /\ calls[c].request.method = "GET"
              /\ calls[c].request.url = calls[c].args[1].s \o calls[c].args[2].s \o calls[c].args[3].s

C20_Witness ==
    \E c \in 1..MaxCalls :
        /\ Done(c)
        /\ calls[c].err = TransportError
        /\ calls[c].response = Response(404)
        /\ calls[c].requests = 1
        /\ calls[c].args[3].s = CodeQuery
        /\ calls[c].request.url =
              <<"https://demo.aeries.net", "/", "a", "e", "r", "i", "e", "s", "/",
                "a", "p", "i", "/", "v", "3", "/">> \o schools \o <<"/">> \o CodeQuery

(***************************************************************************)
(* Accessors called with their callbacks.  The callback an accessor ends   *)
(* up with may not be a function (an argument left out moves the callback  *)
(* into an earlier parameter): its wrapper then raises a TypeError each    *)
(* time the response handler invokes it, and nothing reaches the caller.   *)
(* invoked holds what the caller's callback received.                      *)
(***************************************************************************)
AccessorResponds(c, err, response, body) ==
    /\ calls[c].pc = "InFlight"
    /\ LET callable == calls[c].callback.t = "function"
           run == requestCallback(err, response, body, IF callable THEN {} ELSE {1, 2})
       IN  calls' = [calls EXCEPT ![c] =
                       [@ EXCEPT !.pc = "Done",
                                 !.err = err,
                                 !.response = response,
                                 !.body = body,
                                 !.invoked = IF callable THEN @ \o run.invoked ELSE @,
                                 !.uncaught = run.uncaught]]
    /\ UNCHANGED <<options, tlsEnv, build, caller>>

(***************************************************************************)
(* Accessors with an optional trailing identifier: called with the         *)
(* callback in the identifier's place, the accessor takes it as the        *)
(* callback and the identifier as null.                                    *)
(***************************************************************************)
attendance == <<"a", "t", "t", "e", "n", "d", "a", "n", "c", "e">>

teachers == <<"t", "e", "a", "c", "h", "e", "r", "s">>

sections == <<"s", "e", "c", "t", "i", "o", "n", "s">>

bellschedule == <<"b", "e", "l", "l", "s", "c", "h", "e", "d", "u", "l", "e">>

\* if (typeof id === 'function') { callback = id; id = null; } and the call to
\* schools/<schoolCode>/<segment>/<id>
OptionalTrailing(c, op, segment, schoolCode, id, callback) ==
    /\ calls[c].pc = "Idle"
    /\ LET shifted == id.t = "function"
       IN  calls' = [calls EXCEPT ![c] =
              Accessor(@, op, <<schoolCode, id, callback>>,
                       IF shifted THEN id ELSE callback,
                       makeApiUrl(options.url, Str(v3),
                                  <<Str(schools), schoolCode, Str(segment),
                                    IF shifted THEN Null ELSE id>>))]
    /\ UNCHANGED <<options, tlsEnv, build, caller>>

\* getAttendance without the typeof test.
getAttendanceUnshifted(c, schoolCode, studentId, callback) ==
    /\ calls[c].pc = "Idle"
    /\ calls' = [calls EXCEPT ![c] =
          Accessor(@, "getAttendance", <<schoolCode, studentId, callback>>, callback,
                   makeApiUrl(options.url, Str(v3),
                              <<Str(schools), schoolCode, Str(attendance), studentId>>))]
    /\ UNCHANGED <<options, tlsEnv, build, caller>>

getAttendance(c, schoolCode, studentId, callback) ==
    OptionalTrailing(c, "getAttendance", attendance, schoolCode, studentId, callback)

getTeachers(c, schoolCode, teacherId, callback) ==
    OptionalTrailing(c, "getTeachers", teachers, schoolCode, teacherId, callback)

getSection(c, schoolCode, sectionNumber, callback) ==
    OptionalTrailing(c, "getSection", sections, schoolCode, sectionNumber, callback)

getSchoolBellSchedule(c, schoolCode, day, callback) ==
    OptionalTrailing(c, "getSchoolBellSchedule", bellschedule, schoolCode, day, callback)

\* The last two arguments of a call: the callback in the identifier's place, an
\* explicit null, or an identifier.
TrailingForms == { <<TheCallback, Undefined>>, <<Null, TheCallback>>, <<Num(12), TheCallback>> }

ConfiguredClient ==
    /\ options = [DefaultOptions EXCEPT !.certificate = DemoCertificate, !.url = DemoUrl]
    /\ tlsEnv = constructor(options, "unset")
    /\ build = NoBuild
    /\ calls = [c \in 1..MaxCalls |-> IdleCall]
    /\ caller = FirstClient

NextOptional ==
    \E c \in 1..MaxCalls :
        \/ \E schoolCode \in SchoolCodes, form \in TrailingForms :
              \/ getAttendance(c, schoolCode, form[1], form[2])
              \/ getTeachers(c, schoolCode, form[1], form[2])
              \/ getSection(c, schoolCode, form[1], form[2])
              \/ getSchoolBellSchedule(c, schoolCode, form[1], form[2])
        \/ \E body \in {Undefined, JsonText} :
              AccessorResponds(c, Null, Response(200), body)

SpecOptional == ConfiguredClient /\ [][NextOptional]_vars

ApiV3Href ==
    <<"https://demo.aeries.net", "/", "a", "e", "r", "i", "e", "s", "/",
      "a", "p", "i", "/", "v", "3", "/">>

TemplateOf(op) ==
    CASE op = "getAttendance" -> attendance
      [] op = "getTeachers" -> teachers
      [] op = "getSection" -> sections
      [] op = "getSchoolBellSchedule" -> bellschedule

CallbackInSlot(c) == calls[c].args[2] = TheCallback

ExplicitNull(c) == calls[c].args[2] = Null /\ calls[c].args[3] = TheCallback

\* C21: an accessor with an optional trailing identifier, called with the
\* callback in the identifier's place or with null followed by the callback,
\* requests schools/<schoolCode>/<template>/ without an identifier segment, the
\* two forms make the same request, and the given callback receives the result.
C21_OptionalIdentifierForms ==
    /\ \A c \in 1..MaxCalls :
          (calls[c].op # "" /\ (CallbackInSlot(c) \/ ExplicitNull(c))) =>
              /\ Requested(c)
              /\ calls[c].request.url =
                    ApiV3Href \o schools \o <<"/">> \o NatToString(calls[c].args[1].n)
                        \o <<"/">> \o TemplateOf(calls[c].op) \o <<"/">>
              /\ calls[c].callback = TheCallback
              /\ Done(c) => Len(calls[c].invoked) = 1
    /\ \A c, d \in 1..MaxCalls :
          (/\ calls[c].op # ""
           /\ calls[c].op = calls[d].op
           /\ calls[c].args[1] = calls[d].args[1]
           /\ CallbackInSlot(c)
           /\ ExplicitNull(d)) =>
              /\ calls[c].request = calls[d].request
              /\ calls[c].callback = calls[d].callback

C21_Witness ==
    /\ calls[1].op = "getAttendance"
    /\ CallbackInSlot(1)
    /\ calls[2].op = "getAttendance"
    /\ ExplicitNull(2)
    /\ Done(1)
    /\ Done(2)
    /\ calls[1].invoked = <<Delivery(Null, Object("{a:1}"), 200)>>

(***************************************************************************)
(* getProgramsById(schoolCode, studentId, code, callback): the program     *)
(* code is a query string set on the URL makeApiUrl returned.              *)
(***************************************************************************)
students == <<"s", "t", "u", "d", "e", "n", "t", "s">>

programs == <<"p", "r", "o", "g", "r", "a", "m", "s">>

codeQuery == <<"?", "c", "o", "d", "e", "=">>

getProgramsById(c, schoolCode, studentId, code, callback) ==
    /\ calls[c].pc = "Idle"
    /\ LET shifted == code.t = "function"
           programCode == IF shifted THEN Null ELSE code
           url == makeApiUrl(options.url, Str(v3),
                             <<Str(schools), schoolCode, Str(students), studentId,
                               Str(programs)>>)
       IN  calls' = [calls EXCEPT ![c] =
              Accessor(@, "getProgramsById", <<schoolCode, studentId, code, callback>>,
                       IF shifted THEN code ELSE callback,
                       IF Falsy(programCode) THEN url
                       ELSE setSearch(url, codeQuery \o toString(programCode)))]
    /\ UNCHANGED <<options, tlsEnv, build, caller>>

ProgramCodeForms ==
    { <<Num(144), TheCallback>>, <<Num(0), TheCallback>>, <<Null, TheCallback>>,
      <<TheCallback, Undefined>> }

NextPrograms ==
    \E c \in 1..MaxCalls :
        \/ \E schoolCode \in SchoolCodes, studentId \in {Num(0), Num(12)},
              form \in ProgramCodeForms :
              getProgramsById(c, schoolCode, studentId, form[1], form[2])
        \/ \E body \in {Undefined, JsonText} :
              AccessorResponds(c, Null, Response(200), body)

SpecPrograms == ConfiguredClient /\ [][NextPrograms]_vars

\* C22: getProgramsById requests schools/<schoolCode>/students/<studentId>/programs/
\* with the query string ?code=<code> for every program code that is a number,
\* 0 included, and with no query string when the code is left out.
C22_ProgramCodeInQuery ==
    \A c \in 1..MaxCalls :
        calls[c].op = "getProgramsById" =>
            /\ Requested(c)
            /\ calls[c].request.url =
                  ApiV3Href \o schools \o <<"/">> \o NatToString(calls[c].args[1].n)
                      \o <<"/">> \o students \o <<"/">> \o NatToString(calls[c].args[2].n)
                      \o <<"/">> \o programs \o <<"/">>
                      \o (IF calls[c].args[3].t = "number"
                          THEN codeQuery \o NatToString(calls[c].args[3].n)
                          ELSE <<>>)

(***************************************************************************)
(* Accessors of single endpoints.  The class body defines getSchoolTerms,  *)
(* getStudentById and getAssertiveDisciplineById twice each: a class has   *)
(* one method per name, the one defined last.                              *)
(***************************************************************************)
terms == <<"t", "e", "r", "m", "s">>

calendar == <<"c", "a", "l", "e", "n", "d", "a", "r">>

extended == <<"e", "x", "t", "e", "n", "d", "e", "d">>

assertivediscipline ==
    <<"a", "s", "s", "e", "r", "t", "i", "v", "e",
      "d", "i", "s", "c", "i", "p", "l", "i", "n", "e">>

districtsupplemental ==
    <<"d", "i", "s", "t", "r", "i", "c", "t",
      "s", "u", "p", "p", "l", "e", "m", "e", "n", "t", "a", "l">>

courses == <<"c", "o", "u", "r", "s", "e", "s">>

staff == <<"s", "t", "a", "f", "f">>

gradebooks == <<"g", "r", "a", "d", "e", "b", "o", "o", "k", "s">>

\* The method of a name the class body defines more than once.
LastDefinition(definitions) == definitions[Len(definitions)]

\* The endpoint segment of the two getSchoolTerms definitions, in source order.
getSchoolTermsDefinitions == <<terms, calendar>>

\* The segments after the student id in the two getStudentById definitions.
getStudentByIdDefinitions == << <<>>, <<Str(extended)>> >>

\* The endpoint segment of the two getAssertiveDisciplineById definitions.
getAssertiveDisciplineByIdDefinitions == <<assertivediscipline, districtsupplemental>>

getSchool(c, schoolCode, callback) ==
    /\ calls[c].pc = "Idle"
    /\ calls' = [calls EXCEPT ![c] =
          Accessor(@, "getSchool", <<schoolCode, callback>>, callback,
                   makeApiUrl(options.url, Str(v3), <<Str(schools), schoolCode>>))]
    /\ UNCHANGED <<options, tlsEnv, build, caller>>

getSchoolTerms(c, schoolCode, callback) ==
    /\ calls[c].pc = "Idle"
    /\ calls' = [calls EXCEPT ![c] =
          Accessor(@, "getSchoolTerms", <<schoolCode, callback>>, callback,
                   makeApiUrl(options.url, Str(v3),
                              <<Str(schools), schoolCode,
                                Str(LastDefinition(getSchoolTermsDefinitions))>>))]
    /\ UNCHANGED <<options, tlsEnv, build, caller>>

getStudentById(c, schoolCode, studentId, callback) ==
    /\ calls[c].pc = "Idle"
    /\ calls' = [calls EXCEPT ![c] =
          Accessor(@, "getStudentById", <<schoolCode, studentId, callback>>, callback,
                   makeApiUrl(options.url, Str(v3),
                              <<Str(schools), schoolCode, Str(students), studentId>>
                                  \o LastDefinition(getStudentByIdDefinitions)))]
    /\ UNCHANGED <<options, tlsEnv, build, caller>>

getAssertiveDisciplineById(c, schoolCode, studentId, callback) ==
    OptionalTrailing(c, "getAssertiveDisciplineById",
                     LastDefinition(getAssertiveDisciplineByIdDefinitions),
                     schoolCode, studentId, callback)

\* makeApiUrl('courses', courseId): makeApiUrl's first parameter is the version.
getCourseDetails(c, courseId, callback) ==
    /\ calls[c].pc = "Idle"
    /\ LET shifted == courseId.t = "function"
       IN  calls' = [calls EXCEPT ![c] =
              Accessor(@, "getCourseDetails", <<courseId, callback>>,
                       IF shifted THEN courseId ELSE callback,
                       makeApiUrl(options.url, Str(courses),
                                  <<IF shifted THEN Null ELSE courseId>>))]
    /\ UNCHANGED <<options, tlsEnv, build, caller>>

\* A name that no declaration in scope and no property of the global object binds.
Undeclared == [t |-> "undeclared", s |-> <<>>, n |-> 0]

\* makeApiUrl('v3', 'staff', staffid, 'gradebooks'): the parameter is staffId, and
\* staffid is looked up outside the method.  It is a ReferenceError unless the
\* program running the client has a global of that name.
getGradebookByStaffId(c, staffId, callback, staffid) ==
    /\ calls[c].pc = "Idle"
    /\ calls' = [calls EXCEPT ![c] =
          IF staffid = Undeclared
          THEN [@ EXCEPT !.pc = "Thrown", !.op = "getGradebookByStaffId",
                         !.args = <<staffId, callback>>, !.thrown = TRUE]
          ELSE Accessor(@, "getGradebookByStaffId", <<staffId, callback>>, callback,
                        makeApiUrl(options.url, Str(v3),
                                   <<Str(staff), staffid, Str(gradebooks)>>))]
    /\ UNCHANGED <<options, tlsEnv, build, caller>>

CourseId == Str(<<"0", "6", "1", "8">>)

EndpointBuilds ==
    { <<Str(schools), Undefined>>, <<Str(schools), Null>>, <<Undefined, Str(schools)>> }

InitEndpoints ==
    /\ options = [DefaultOptions EXCEPT !.certificate = DemoCertificate, !.url = DemoUrl]
    /\ tlsEnv = constructor(options, "unset")
    /\ build \in [pc : {"ready"}, apiVersion : {Str(v3)}, args : EndpointBuilds,
                  result : {TypeError}]
    /\ calls = [c \in 1..MaxCalls |-> IdleCall]
    /\ caller = FirstClient

NextEndpoints ==
    \/ MakeApiUrl
    \/ \E c \in 1..MaxCalls :
          \/ \E schoolCode \in {Num(990), Null, Undefined} :
                getSchool(c, schoolCode, TheCallback)
          \/ \E schoolCode \in {Num(990), Undefined} :
                getSchoolTerms(c, schoolCode, TheCallback)
          \/ \E studentId \in {Num(12), Undefined} :
                getStudentById(c, Num(990), studentId, TheCallback)
          \/ \E form \in { <<Num(12), TheCallback>>, <<TheCallback, Undefined>> } :
                getAssertiveDisciplineById(c, Num(990), form[1], form[2])
          \/ \E form \in { <<CourseId, TheCallback>>, <<TheCallback, Undefined>>,
                           <<Undefined, TheCallback>> } :
                getCourseDetails(c, form[1], form[2])
          \/ \E staffid \in {Undeclared, Num(7)} :
                getGradebookByStaffId(c, Num(12), TheCallback, staffid)
          \/ \E body \in {Undefined, JsonText} :
                AccessorResponds(c, Null, Response(200), body)

SpecEndpoints == InitEndpoints /\ [][NextEndpoints]_vars

BaseHref == <<"https://demo.aeries.net", "/", "a", "e", "r", "i", "e", "s", "/">>

ApiVersionIds == { <<"v", "1">>, <<"v", "2">>, <<"v", "3">> }

\* C23: getCourseDetails requests <baseUrl>api/<version>/courses/<courseId>/, with
\* an API version identifier in the version position, and
\* <baseUrl>api/<version>/courses/ when the course id is left out.
C23_CourseDetailsUnderVersion ==
    \A c \in 1..MaxCalls :
        (calls[c].op = "getCourseDetails" /\ calls[c].args[1] # Undefined) =>
            /\ Requested(c)
            /\ \E version \in ApiVersionIds :
                  calls[c].request.url =
                     BaseHref \o <<"a", "p", "i", "/">> \o version \o <<"/">>
                         \o courses \o <<"/">>
                         \o (IF calls[c].args[1].t = "string"
                             THEN calls[c].args[1].s \o <<"/">>
                             ELSE <<>>)

\* C24: getGradebookByStaffId(staffId, callback) makes one GET request to
\* api/v3/staff/<staffId>/gradebooks/ and its callback is invoked once with the
\* result.
C24_GradebooksOfStaff ==
    \A c \in 1..MaxCalls :
        calls[c].op = "getGradebookByStaffId" =>
            /\ Requested(c)
            /\ calls[c].requests = 1
            /\ calls[c].request.method = "GET"
            /\ calls[c].request.url =
                  ApiV3Href \o staff \o <<"/">> \o NatToString(calls[c].args[1].n)
                      \o <<"/">> \o gradebooks \o <<"/">>
            /\ Done(c) => Len(calls[c].invoked) = 1

\* The arguments before the callback are given.
DefinedArgs(c) == \A i \in 1..(Len(calls[c].args) - 1) : calls[c].args[i] # Undefined

\* C25: getSchoolTerms requests schools/<schoolCode>/terms/, getStudentById
\* requests schools/<schoolCode>/students/<id>/ and getAssertiveDisciplineById
\* requests schools/<schoolCode>/assertivediscipline/[<id>/].
C25_DeclaredEndpoints ==
    \A c \in 1..MaxCalls :
        LET school == ApiV3Href \o schools \o <<"/">> \o toString(calls[c].args[1]) \o <<"/">>
        IN  /\ (calls[c].op = "getSchoolTerms" /\ DefinedArgs(c)) =>
                  calls[c].request.url = school \o terms \o <<"/">>
            /\ (calls[c].op = "getStudentById" /\ DefinedArgs(c)) =>
                  calls[c].request.url =
                     school \o students \o <<"/">> \o toString(calls[c].args[2]) \o <<"/">>
            /\ (calls[c].op = "getAssertiveDisciplineById" /\ calls[c].args[3] # Undefined) =>
                  calls[c].request.url =
                     school \o assertivediscipline \o <<"/">>
                         \o toString(calls[c].args[2]) \o <<"/">>
            /\ (calls[c].op = "getAssertiveDisciplineById" /\ calls[c].args[3] = Undefined) =>
                  calls[c].request.url = school \o assertivediscipline \o <<"/">>

IdentifierAccessors ==
    {"getSchool", "getSchoolTerms", "getStudentById", "getCourseDetails"}

HasUndefined(args) == \E i \in 1..Len(args) : args[i] = Undefined

\* C29: makeApiUrl raises an exception for a segment that is undefined and skips
\* one that is null; an accessor called with an identifier left undefined makes
\* no request and never invokes its callback, while null leaves the segment out.
C29_UndefinedSegmentRaises ==
    /\ Built => (build.result.ok <=> ~HasUndefined(build.args))
    /\ \A c \in 1..MaxCalls :
          /\ (calls[c].op \in IdentifierAccessors /\ ~DefinedArgs(c)) =>
                /\ calls[c].pc = "Thrown"
                /\ calls[c].thrown
                /\ calls[c].requests = 0
                /\ calls[c].request = NoRequest
                /\ calls[c].invoked = <<>>
          /\ (calls[c].op = "getSchool" /\ calls[c].args[1] = Null) =>
                /\ Requested(c)
                /\ calls[c].request.url = ApiV3Href \o schools \o <<"/">>

C29_Witness ==
    /\ Built
    /\ build.args = <<Str(schools), Undefined>>
    /\ ~build.result.ok
    /\ calls[1].op = "getSchool"
    /\ calls[1].args[1] = Undefined
    /\ calls[1].pc = "Thrown"
    /\ calls[2].op = "getSchool"
    /\ calls[2].args[1] = Null
    /\ Done(2)

(***************************************************************************)
(* Accessors that put a default in the place of an identifier left out,    *)
(* and getStudentEnrollmentAtSchool called with three arguments: the       *)
(* method of that name has the parameters (schoolCode, studentId, year,    *)
(* callback), so the third argument is its year and its callback is        *)
(* undefined.                                                              *)
(***************************************************************************)
StudentGroups == <<"S", "t", "u", "d", "e", "n", "t", "G", "r", "o", "u", "p", "s">>

all == <<"a", "l", "l">>

\* getStudentGroups that sets a school code left out to null.
getStudentGroupsSkipping(c, schoolCode, callback) ==
    /\ calls[c].pc = "Idle"
    /\ LET shifted == schoolCode.t = "function"
       IN  calls' = [calls EXCEPT ![c] =
              Accessor(@, "getStudentGroups", <<schoolCode, callback>>,
                       IF shifted THEN schoolCode ELSE callback,
                       makeApiUrl(options.url, Str(v3),
                                  <<Str(schools),
                                    IF shifted THEN Null ELSE schoolCode,
                                    Str(StudentGroups)>>))]
    /\ UNCHANGED <<options, tlsEnv, build, caller>>

getStudentGroups(c, schoolCode, callback) ==
    /\ calls[c].pc = "Idle"
    /\ LET shifted == schoolCode.t = "function"
       IN  calls' = [calls EXCEPT ![c] =
              Accessor(@, "getStudentGroups", <<schoolCode, callback>>,
                       IF shifted THEN schoolCode ELSE callback,
                       makeApiUrl(options.url, Str(v3),
                                  <<Str(schools),
                                    IF shifted \/ schoolCode = Null THEN Str(all)
                                    ELSE schoolCode,
                                    Str(StudentGroups)>>))]
    /\ UNCHANGED <<options, tlsEnv, build, caller>>

getStudentEnrollment(c, studentId, callback) ==
    /\ calls[c].pc = "Idle"
    /\ LET shifted == studentId.t = "function"
       IN  calls' = [calls EXCEPT ![c] =
              Accessor(@, "getStudentEnrollment", <<studentId, callback>>,
                       IF shifted THEN studentId ELSE callback,
                       makeApiUrl(options.url, Str(v3),
                                  <<Str(enrollment),
                                    IF shifted \/ studentId = Null THEN Num(0)
                                    ELSE studentId>>))]
    /\ UNCHANGED <<options, tlsEnv, build, caller>>

\* The identifier and callback arguments of a call: the callback in the
\* identifier's place, null, 0, or an identifier.
DefaultForms ==
    { <<TheCallback, Undefined>>, <<Null, TheCallback>>, <<Num(0), TheCallback>>,
      <<Num(12), TheCallback>> }

NextDefaults ==
    \E c \in 1..MaxCalls :
        \/ \E form \in DefaultForms :
              \/ getStudentGroups(c, form[1], form[2])
              \/ getStudentEnrollment(c, form[1], form[2])
        \/ \E studentId \in StudentIds :
              getStudentEnrollmentAtSchool(c, Num(990), studentId, TheCallback, Undefined, FALSE)
        \/ \E body \in {Undefined, JsonText} :
              AccessorResponds(c, Null, Response(200), body)

SpecDefaults == ConfiguredClient /\ [][NextDefaults]_vars

\* C26: getStudentEnrollmentAtSchool(schoolCode, studentId, callback) requests
\* schools/<schoolCode>/enrollment/<studentId or 0>/ without a year segment, and
\* the callback given is invoked once with the result.
C26_EnrollmentAtSchoolThreeArguments ==
    \A c \in 1..MaxCalls :
        (calls[c].op = "getStudentEnrollmentAtSchool" /\ calls[c].args[3].t = "function") =>
            /\ Requested(c)
            /\ calls[c].request.url =
                  ApiV3Href \o schools \o <<"/">> \o NatToString(calls[c].args[1].n)
                      \o <<"/">> \o enrollment \o <<"/">>
                      \o (IF calls[c].args[2] = Null THEN <<"0">>
                          ELSE NatToString(calls[c].args[2].n)) \o <<"/">>
            /\ calls[c].callback = calls[c].args[3]
            /\ Done(c) => Len(calls[c].invoked) = 1

\* C27: getStudentGroups with the school code left out or null requests
\* schools/all/StudentGroups/, getStudentEnrollment with the student id left out
\* or null requests enrollment/0/, and a value that is given, 0 included, is the
\* segment; the callback given receives the result.
C27_DocumentedDefaults ==
    \A c \in 1..MaxCalls :
        LET given == calls[c].args[1]
            left == given.t = "function" \/ given = Null
        IN  /\ calls[c].op = "getStudentGroups" =>
                  /\ Requested(c)
                  /\ calls[c].request.url =
                        ApiV3Href \o schools \o <<"/">>
                            \o (IF left THEN all ELSE NatToString(given.n))
                            \o <<"/">> \o StudentGroups \o <<"/">>
                  /\ calls[c].callback = TheCallback
            /\ calls[c].op = "getStudentEnrollment" =>
                  /\ Requested(c)
                  /\ calls[c].request.url =
                        ApiV3Href \o enrollment \o <<"/">>
                            \o (IF left THEN <<"0">> ELSE NatToString(given.n)) \o <<"/">>
                  /\ calls[c].callback = TheCallback

C27_Witness ==
    /\ calls[1].op = "getStudentGroups"
    /\ calls[1].args = <<TheCallback, Undefined>>
    /\ calls[1].request.url =
          ApiV3Href \o schools \o <<"/">> \o all \o <<"/">> \o StudentGroups \o <<"/">>
    /\ Done(1)
    /\ calls[1].invoked = <<Delivery(Null, Object("{a:1}"), 200)>>
    /\ calls[2].op = "getStudentEnrollment"
    /\ calls[2].args = <<Null, TheCallback>>
    /\ calls[2].request.url = ApiV3Href \o enrollment \o <<"/", "0", "/">>

\* C28: when the body of a response is valid JSON, no invocation of the callback
\* carries the raw body text, and none carries an error other than the one the
\* transport reported.
C28_RawBodyOnlyOnParseFailure ==
    \A c \in 1..MaxCalls :
        (Done(c) /\ ~Falsy(calls[c].body) /\ JSONparse(calls[c].body.s).ok) =>
            \A i \in 1..Len(calls[c].invoked) :
                /\ calls[c].invoked[i].body # calls[c].body
                /\ calls[c].invoked[i].error = calls[c].err

\* C30: once a client has been constructed with verifyCerts false the TLS flag
\* is "0" in every later state, whatever clients are constructed and whatever
\* calls are made afterwards, and every request issued from then on, also by a
\* client with verifyCerts true, runs with the flag at "0".
C30_TlsStaysDisabled ==
    /\ [](caller.constructions = 1 /\ ~options.verifyCerts => tlsEnv = "0")
    /\ [][/\ (tlsEnv = "0" \/ (options' # options /\ ~options'.verifyCerts)) => tlsEnv' = "0"
          /\ tlsEnv = "0" =>
                \A c \in 1..MaxCalls :
                    (calls[c].pc = "Idle" /\ calls'[c].pc = "InFlight") =>
                        calls'[c].tlsFlag = "0"]_vars

C30_Witness ==
    /\ caller.constructions = 3
    /\ options.verifyCerts
    /\ tlsEnv = "0"
    /\ \E c \in 1..MaxCalls :
          /\ Done(c)
          /\ calls[c].verifyCerts
          /\ calls[c].tlsFlag = "0"

====
